---- MODULE Spec2Model ----
(***************************************************************************)
(* Model of the feature-to-decision pipeline of Cymbal-Superstore-Analytics *)
(*   python/01_kmeans_segmentation.py  (clean_features, profile_segments,   *)
(*                                      name_segments, main)                *)
(*   python/02_churn_model.py          (load_training_frame,                *)
(*                                      assign_priority_band, write_back,   *)
(*                                      main)                               *)
(* A pandas DataFrame is a sequence of rows (records) or, for the feature   *)
(* preparation, a function from column name to the sequence of its cells.   *)
(***************************************************************************)
EXTENDS Integers, Sequences, FiniteSets, TLC

VARIABLES
    seg_pc,      \* profiler/namer position: "labelled", "profiled", "named"
    seg_df,      \* customers with their cluster label (df after df["segment"] = labels)
    profile,     \* the profile DataFrame: one row per cluster
    band_pc,     \* priority ranker position: "scored", "banded", "failed"
    scored,      \* the scored population handed to assign_priority_band
    banded,      \* the DataFrame assign_priority_band returns
    prep_script, \* which script prepares features: "segmentation" or "churn"
    prep_raw,    \* the table as read from the Feature Store (column -> cells)
    prep_df,     \* the in-memory DataFrame (to_numeric and fillna assign in place)
    prep_calls,  \* number of calls of the preparation function so far
    prep_result, \* outcome of the last call: "none", "returned", "raised"
    customer_rfm,            \* Feature Store: ids with a row in analytics.customer_rfm
    customer_time_features,  \* Feature Store: ids with a row in customer_time_features
    db,          \* the destination tables of the Result Sink
    run,         \* the script invocation in progress: position and in-memory frames
    started      \* the scripts invoked so far in this pass of the pipeline

segVars == <<seg_pc, seg_df, profile>>
bandVars == <<band_pc, scored, banded>>
prepVars == <<prep_script, prep_raw, prep_df, prep_calls, prep_result>>
runVars == <<customer_rfm, customer_time_features, db, run, started>>
vars == <<segVars, bandVars, prepVars, runVars>>

\* the variables a component leaves alone
notSeg == <<bandVars, prepVars, runVars>>
notBand == <<segVars, prepVars, runVars>>
notPrep == <<segVars, bandVars, runVars>>
notRun == <<segVars, bandVars, prepVars>>

\* a component whose script is not running
SegIdle == seg_pc = "idle" /\ seg_df = <<>> /\ profile = <<>>
BandIdle == band_pc = "idle" /\ scored = <<>> /\ banded = <<>>
PrepIdle ==
    /\ prep_script = "idle" /\ prep_raw = <<>> /\ prep_df = <<>>
    /\ prep_calls = 0 /\ prep_result = "none"
RunIdle ==
    /\ customer_rfm = {} /\ customer_time_features = {} /\ db = <<>>
    /\ run = <<>> /\ started = {}

----------------------------------------------------------------------------
(* Bounds *)

MaxProfCustomers == 3    \* customers in the labelled frame handed to profile_segments
MaxSegments == 3         \* cluster labels 0..MaxSegments-1 in the profiler model
MaxMetric == 2           \* metric cells range over 0..MaxMetric
MaxRank == 5             \* rank triples handed to name_segments range over 1..MaxRank
MaxBandCustomers == 5    \* customers in the population handed to assign_priority_band
MaxBandValue == 3        \* churn_risk and monetary cells range over 0..MaxBandValue
MaxPrepCustomers == 3    \* rows of the table handed to the feature preparation
MaxCell == 2             \* numeric raw cells are 0, 2, .., 2*MaxCell
MaxCalls == 2            \* clean_features is applied at most MaxCalls times to a table
MaxCustomers == 2        \* customer ids 1..MaxCustomers in the script runs
MaxRisk == 1             \* churn_risk scores range over 0..MaxRisk in the script runs
RunClusters == 2         \* cluster labels 0..RunClusters-1 in the script runs

(* Program constants *)

SENTINEL == 9999
CHURN_THRESHOLD_DAYS == 180

----------------------------------------------------------------------------
(* Generic helpers *)

Range(s) == {s[i] : i \in DOMAIN s}

\* the ascending sequence of a finite set of integers
SortedSeq(S) ==
    CHOOSE s \in [1..Cardinality(S) -> S] :
        \A i, j \in 1..Cardinality(S) : i < j => s[i] < s[j]

RECURSIVE SumOver(_, _, _)
\* sum of column col over the rows of s whose index is in idx
SumOver(s, col, idx) ==
    IF idx = {} THEN 0
    ELSE LET i == CHOOSE x \in idx : TRUE
         IN  s[i][col] + SumOver(s, col, idx \ {i})

----------------------------------------------------------------------------
(* Segment profiler: profile_segments *)

RankedMetrics == {"recency_days", "monetary", "frequency"}

\* a group mean, kept exact as <<sum, count>>
GroupMean(df, col, label) ==
    LET idx == {i \in DOMAIN df : df[i].segment = label}
    IN  <<SumOver(df, col, idx), Cardinality(idx)>>

MeanLess(a, b) == a[1] * b[2] < b[1] * a[2]
MeanEq(a, b) == a[1] * b[2] = b[1] * a[2]

\* Series.rank(method="dense", ascending=...): 1 + the number of distinct
\* values that sort strictly before vals[i]
DenseRankNonDense(vals, i, ascending) ==
    1 + Cardinality({j \in DOMAIN vals :
            IF ascending THEN MeanLess(vals[j], vals[i])
                         ELSE MeanLess(vals[i], vals[j])})

DenseRank(vals, i, ascending) ==
    1 + Cardinality({j \in DOMAIN vals :
            /\ IF ascending THEN MeanLess(vals[j], vals[i])
                            ELSE MeanLess(vals[i], vals[j])
            /\ \A l \in DOMAIN vals : l < j => ~MeanEq(vals[l], vals[j])})

\* the three rank columns as written in profile_segments
RecencyRank(means, i) == DenseRank(means, i, TRUE)
ValueRank(means, i) == DenseRank(means, i, FALSE)
FreqRank(means, i) == DenseRank(means, i, FALSE)

\* df.groupby(label_col).agg(...).reset_index() followed by the rank columns
profile_segments(df) ==
    LET labels == SortedSeq({df[i].segment : i \in DOMAIN df})
        means(col) == [g \in DOMAIN labels |-> GroupMean(df, col, labels[g])]
    IN  [g \in DOMAIN labels |->
            [segment      |-> labels[g],
             customers    |-> Cardinality({i \in DOMAIN df : df[i].segment = labels[g]}),
             recency_days |-> means("recency_days")[g],
             monetary     |-> means("monetary")[g],
             frequency    |-> means("frequency")[g],
             recency_rank |-> RecencyRank(means("recency_days"), g),
             value_rank   |-> ValueRank(means("monetary"), g),
             freq_rank    |-> FreqRank(means("frequency"), g),
             segment_name |-> ""]]

----------------------------------------------------------------------------
(* Segment namer: name_segments *)

SegmentNames ==
    {"Champions", "At-Risk High Value", "Loyal Low Spend", "New Customers",
     "Occasional Shoppers"}

\* the four rule conditions of segment_name(row)
IsChampionsNoRecency(row) == row.value_rank <= 1 /\ row.freq_rank <= 2

IsChampions(row) ==
    row.value_rank <= 1 /\ row.freq_rank <= 2 /\ row.recency_rank <= 2

IsAtRiskAnyValue(row) == row.value_rank <= 4 /\ row.recency_rank >= 4

IsAtRiskHighValue(row) == row.value_rank <= 2 /\ row.recency_rank >= 4

IsLoyalLowSpend(row) == row.freq_rank <= 2 /\ row.value_rank >= 4

IsNewCustomers(row) == row.recency_rank <= 2 /\ row.freq_rank >= 4

\* the rules as an ordered list, evaluated top-down, first match wins
RuleName(r) ==
    CASE r = 1 -> "Champions"
      [] r = 2 -> "At-Risk High Value"
      [] r = 3 -> "Loyal Low Spend"
      [] r = 4 -> "New Customers"

RuleHolds(r, row) ==
    CASE r = 1 -> IsChampions(row)
      [] r = 2 -> IsAtRiskHighValue(row)
      [] r = 3 -> IsLoyalLowSpend(row)
      [] r = 4 -> IsNewCustomers(row)

RECURSIVE EvalRules(_, _)
EvalRules(order, row) ==
    IF order = <<>> THEN "Occasional Shoppers"
    ELSE IF RuleHolds(Head(order), row) THEN RuleName(Head(order))
    ELSE EvalRules(Tail(order), row)

segment_name(row) == EvalRules(<<1, 2, 3, 4>>, row)

\* profile["segment_name"] = profile.apply(segment_name, axis=1)
name_segments(prof) ==
    [g \in DOMAIN prof |-> [prof[g] EXCEPT !.segment_name = segment_name(prof[g])]]

----------------------------------------------------------------------------
(* Specification of the profiler and namer over a labelled customer frame *)

\* the cells of one ranked metric vary; the two other metrics are constant
\* (the three rank columns are computed column by column)
LabelledRow(axis, label, v) ==
    [segment      |-> label,
     recency_days |-> IF axis = "recency_days" THEN v ELSE 1,
     monetary     |-> IF axis = "monetary" THEN v ELSE 1,
     frequency    |-> IF axis = "frequency" THEN v ELSE 1]

InitProfile ==
    /\ BandIdle /\ PrepIdle /\ RunIdle
    /\ seg_pc = "labelled"
    /\ profile = <<>>
    /\ \E n \in 1..MaxProfCustomers, axis \in RankedMetrics :
         \E lab \in [1..n -> 0..(MaxSegments - 1)], val \in [1..n -> 0..MaxMetric] :
            seg_df = [i \in 1..n |-> LabelledRow(axis, lab[i], val[i])]

ProfileSegments ==
    /\ seg_pc = "labelled"
    /\ profile' = profile_segments(seg_df)
    /\ seg_pc' = "profiled"
    /\ UNCHANGED <<seg_df, notSeg>>

NameSegments ==
    /\ seg_pc = "profiled"
    /\ profile' = name_segments(profile)
    /\ seg_pc' = "named"
    /\ UNCHANGED <<seg_df, notSeg>>

NextProfile == ProfileSegments \/ NameSegments

SpecProfile == InitProfile /\ [][NextProfile]_vars

----------------------------------------------------------------------------
(* Specification of the namer alone, over profiles with any rank triples *)

Ranks == 1..MaxRank
NameRows == {1, 2}       \* a profile of two rows is handed to name_segments

InitName ==
    /\ BandIdle /\ PrepIdle /\ RunIdle
    /\ seg_pc = "profiled"
    /\ seg_df = <<>>
    /\ \E t \in [NameRows -> [value_rank : Ranks, freq_rank : Ranks, recency_rank : Ranks]] :
         profile = [g \in NameRows |->
                      [segment      |-> g - 1,
                       value_rank   |-> t[g].value_rank,
                       freq_rank    |-> t[g].freq_rank,
                       recency_rank |-> t[g].recency_rank,
                       segment_name |-> ""]]

NextName == NameSegments

SpecName == InitName /\ [][NextName]_vars

----------------------------------------------------------------------------
(* Priority ranker: assign_priority_band *)

Sorted(vals) == SortSeq(vals, LAMBDA a, b : a < b)

\* three times the q/3 quantile of vals (Series.quantile, linear
\* interpolation between the two nearest order statistics), q in 0..3
QuantileEdge3(vals, q) ==
    LET s == Sorted(vals)
        pos3 == q * (Len(s) - 1)
        i == (pos3 \div 3) + 1
        r == pos3 % 3
    IN  IF r = 0 THEN 3 * s[i] ELSE 3 * s[i] + r * (s[i + 1] - s[i])

\* pd.qcut raises ValueError("Bin edges must be unique") when two edges coincide
QcutRaises(vals) ==
    \E q \in 0..2 : QuantileEdge3(vals, q) = QuantileEdge3(vals, q + 1)

\* the bin (1 = lowest) of x: right-closed intervals, the lowest edge included
QcutBin(vals, x) ==
    LET below == Cardinality({q \in 0..3 : QuantileEdge3(vals, q) < 3 * x})
    IN  IF below = 0 THEN 1 ELSE below

\* labels=[3, 2, 1]: the lowest bin is labelled 3, the highest 1
BandLabelAscending(bin) == bin

BandLabel(bin) == 4 - bin

\* pd.qcut(series, q=3, labels=[3, 2, 1]).astype(int)
qcut3(vals) == [i \in DOMAIN vals |-> BandLabel(QcutBin(vals, vals[i]))]

PriorityBands == {"HIGH", "MEDIUM", "LOW"}

priorityNoSecondMedium(risk_band, value_band) ==
    IF risk_band = 1 /\ value_band = 1 THEN "HIGH"
    ELSE IF risk_band = 1 /\ value_band = 2 THEN "MEDIUM"
    ELSE "LOW"

\* priority(row)
priority(risk_band, value_band) ==
    IF risk_band = 1 /\ value_band = 1 THEN "HIGH"
    ELSE IF risk_band = 1 /\ value_band = 2 THEN "MEDIUM"
    ELSE IF risk_band = 2 /\ value_band = 1 THEN "MEDIUM"
    ELSE "LOW"

Column(df, col) == [i \in DOMAIN df |-> df[i][col]]

assign_priority_band(df) ==
    LET risk == qcut3(Column(df, "churn_risk"))
        value == qcut3(Column(df, "monetary"))
    IN  [i \in DOMAIN df |->
            [customer_unique_id |-> df[i].customer_unique_id,
             churn_risk    |-> df[i].churn_risk,
             monetary      |-> df[i].monetary,
             risk_band     |-> risk[i],
             value_band    |-> value[i],
             priority_band |-> priority(risk[i], value[i])]]

\* the cells of one of the two banded columns vary freely; the other column
\* holds pairwise distinct values (the two qcut calls are independent)
InitBand ==
    /\ SegIdle /\ PrepIdle /\ RunIdle
    /\ band_pc = "scored"
    /\ banded = <<>>
    /\ \E n \in 1..MaxBandCustomers, col \in {"churn_risk", "monetary"} :
         \E val \in [1..n -> 0..MaxBandValue] :
            scored = [i \in 1..n |->
                        [customer_unique_id |-> i,
                         churn_risk |-> IF col = "churn_risk" THEN val[i] ELSE i - 1,
                         monetary   |-> IF col = "monetary" THEN val[i] ELSE i - 1]]

AssignPriorityBand ==
    /\ band_pc = "scored"
    /\ ~QcutRaises(Column(scored, "churn_risk"))
    /\ ~QcutRaises(Column(scored, "monetary"))
    /\ banded' = assign_priority_band(scored)
    /\ band_pc' = "banded"
    /\ UNCHANGED <<scored, notBand>>

\* either qcut call raises ValueError: no bands are assigned
AssignPriorityBandRaises ==
    /\ band_pc = "scored"
    /\ QcutRaises(Column(scored, "churn_risk")) \/ QcutRaises(Column(scored, "monetary"))
    /\ band_pc' = "failed"
    /\ UNCHANGED <<scored, banded, notBand>>

NextBand == AssignPriorityBand \/ AssignPriorityBandRaises

SpecBand == InitBand /\ [][NextBand]_vars

----------------------------------------------------------------------------
(* Feature preparation: clean_features and load_training_frame *)

NaN == -1             \* a missing cell (NULL, or a value to_numeric coerced)
NonNumeric == -2      \* a raw cell holding text that is not a number

FEATURES ==
    <<"recency_days", "frequency", "monetary", "avg_order_value",
      "avg_items_per_order", "avg_category_diversity", "tenure_days",
      "avg_days_between_orders">>

lifetime_cols ==
    <<"frequency", "monetary", "avg_order_value", "avg_items_per_order",
      "avg_category_diversity", "tenure_days", "avg_days_between_orders">>

time_cols == <<"spend_30d", "spend_90d", "orders_30d", "orders_90d">>

\* pd.to_numeric(x, errors="coerce")
to_numeric(x) == IF x = NonNumeric THEN NaN ELSE x

isna(cells) == {i \in DOMAIN cells : cells[i] = NaN}

\* Series.fillna(v); fillna(NaN) changes nothing
fillna(cells, v) == [i \in DOMAIN cells |-> IF cells[i] = NaN THEN v ELSE cells[i]]

\* Series.median(): NaN cells skipped; NaN when no cell is left
median(cells) ==
    LET present == SelectSeq(cells, LAMBDA x : x # NaN)
        s == SortSeq(present, LAMBDA a, b : a < b)
        n == Len(s)
    IN  IF n = 0 THEN NaN
        ELSE IF n % 2 = 1 THEN s[(n + 1) \div 2]
        ELSE (s[n \div 2] + s[(n \div 2) + 1]) \div 2

\* np.log1p in hundredths, rounded: 100 * ln(1 + x)
Log1pTable == <<0, 69, 110, 139, 161, 179, 195, 208, 220, 230>>

RECURSIVE log1p(_)
log1p(x) ==
    IF x = NaN THEN NaN
    ELSE IF x + 1 <= Len(Log1pTable) THEN Log1pTable[x + 1]
    ELSE 69 + log1p(x \div 2)

\* the longest prefix of cols whose columns all exist in df: a loop over cols
\* raises KeyError at the first column that df lacks
RECURSIVE PresentPrefix(_, _)
PresentPrefix(df, cols) ==
    IF cols = <<>> \/ Head(cols) \notin DOMAIN df THEN <<>>
    ELSE <<Head(cols)>> \o PresentPrefix(df, Tail(cols))

Coerce(col, cells) == [i \in DOMAIN cells |-> to_numeric(cells[i])]

\* the fill computed but its result not assigned back to the column
FillMedianNotAssigned(col, cells) == cells

\* if df[col].isna().any(): df[col] = df[col].fillna(df[col].median())
FillMedian(col, cells) ==
    IF isna(cells) # {} THEN fillna(cells, median(cells)) ELSE cells

\* if df[c].isna().any(): df[c] = df[c].fillna(0)
FillZero(col, cells) ==
    IF isna(cells) # {} THEN fillna(cells, 0) ELSE cells

\* for col in cols: df[col] = ...  (each column is read and assigned once,
\* from its own cells)
CoerceColumns(df, cols) ==
    [c \in DOMAIN df |-> IF c \in Range(cols) THEN Coerce(c, df[c]) ELSE df[c]]

FillMedianColumns(df, cols) ==
    [c \in DOMAIN df |-> IF c \in Range(cols) THEN FillMedian(c, df[c]) ELSE df[c]]

FillZeroColumns(df, cols) ==
    [c \in DOMAIN df |-> IF c \in Range(cols) THEN FillZero(c, df[c]) ELSE df[c]]

WithColumn(df, col, cells) ==
    [c \in DOMAIN df \cup {col} |-> IF c = col THEN cells ELSE df[c]]

\* clean_features with the log written over the original column
clean_features_log_in_place(df) ==
    LET coerced == CoerceColumns(df, PresentPrefix(df, FEATURES))
    IN  IF Len(PresentPrefix(df, FEATURES)) < Len(FEATURES)
        THEN [frame |-> coerced, raised |-> TRUE]
        ELSE
          LET sentinel == [coerced EXCEPT !["avg_days_between_orders"] = fillna(@, SENTINEL)]
              imputed == FillMedianColumns(sentinel, FEATURES)
              logged == [imputed EXCEPT
                            !["monetary"] = [i \in DOMAIN @ |-> log1p(@[i])],
                            !["avg_order_value"] = [i \in DOMAIN @ |-> log1p(@[i])]]
          IN  [frame |-> logged, raised |-> FALSE]

\* clean_features(df): the frame is modified in place, also when the first
\* loop raises KeyError on a column the frame lacks
clean_features(df) ==
    LET coerced == CoerceColumns(df, PresentPrefix(df, FEATURES))
    IN  IF Len(PresentPrefix(df, FEATURES)) < Len(FEATURES)
        THEN [frame |-> coerced, raised |-> TRUE]
        ELSE
          LET sentinel == [coerced EXCEPT !["avg_days_between_orders"] = fillna(@, SENTINEL)]
              imputed == FillMedianColumns(sentinel, FEATURES)
              m == WithColumn(imputed, "monetary_log",
                     [i \in DOMAIN imputed["monetary"] |-> log1p(imputed["monetary"][i])])
              a == WithColumn(m, "avg_order_value_log",
                     [i \in DOMAIN m["avg_order_value"] |-> log1p(m["avg_order_value"][i])])
          IN  [frame |-> a, raised |-> FALSE]

\* the columns the query of load_training_frame selects and the function reads
TrainingColumns == Range(lifetime_cols) \cup Range(time_cols) \cup {"recency_days"}

\* load_training_frame, from the frame read_sql returns to the label; the
\* query fails when a selected column does not exist, and the comparison of
\* recency_days (never coerced) with the threshold fails on a text cell
load_training_frame(table) ==
    IF \/ ~(TrainingColumns \subseteq DOMAIN table)
       \/ NonNumeric \in Range(table["recency_days"])
    THEN [frame |-> table, raised |-> TRUE]
    ELSE
      LET coerced == CoerceColumns(table, lifetime_cols \o time_cols)
          imputed == FillMedianColumns(coerced, lifetime_cols)
          zeroed == FillZeroColumns(imputed, time_cols)
          sentinel == [zeroed EXCEPT !["avg_days_between_orders"] = fillna(@, SENTINEL)]
          \* NaN >= 180 is False
          labelled == WithColumn(sentinel, "churned",
                        [i \in DOMAIN sentinel["recency_days"] |->
                           IF sentinel["recency_days"][i] >= CHURN_THRESHOLD_DAYS
                           THEN 1 ELSE 0])
      IN  [frame |-> labelled, raised |-> FALSE]

----------------------------------------------------------------------------
(* Specification of the feature preparation *)

RawCells == {NaN, NonNumeric} \cup {2 * k : k \in 0..MaxCell}

ScriptColumns(script) ==
    IF script = "segmentation" THEN Range(FEATURES) ELSE TrainingColumns

\* a fully populated column; recency_days straddles the churn threshold
DefaultCell(col, i) == IF col = "recency_days" THEN 176 + 2 * i ELSE 2

\* the cells of one column vary freely, or that column is missing from the
\* table; every other column is fully populated (each column is coerced and
\* imputed from its own cells only)
InitPrep ==
    /\ SegIdle /\ BandIdle /\ RunIdle
    /\ prep_calls = 0
    /\ prep_result = "none"
    /\ \E script \in {"segmentation", "churn"}, n \in 1..MaxPrepCustomers :
         \E col \in ScriptColumns(script) :
            /\ prep_script = script
            /\ \/ \E cells \in [1..n -> RawCells] :
                    prep_raw = [c \in ScriptColumns(script) |->
                                  IF c = col THEN cells
                                  ELSE [i \in 1..n |-> DefaultCell(c, i)]]
               \/ prep_raw = [c \in ScriptColumns(script) \ {col} |->
                                  [i \in 1..n |-> DefaultCell(c, i)]]
    /\ prep_df = prep_raw

\* df, clustering_features = clean_features(df)
CleanFeatures ==
    /\ prep_script = "segmentation"
    /\ prep_calls < MaxCalls
    /\ prep_df' = clean_features(prep_df).frame
    /\ prep_result' = IF clean_features(prep_df).raised THEN "raised" ELSE "returned"
    /\ prep_calls' = prep_calls + 1
    /\ UNCHANGED <<prep_script, prep_raw, notPrep>>

\* df = load_training_frame(db_engine)
LoadTrainingFrame ==
    /\ prep_script = "churn"
    /\ prep_calls = 0
    /\ prep_df' = load_training_frame(prep_raw).frame
    /\ prep_result' = IF load_training_frame(prep_raw).raised THEN "raised" ELSE "returned"
    /\ prep_calls' = 1
    /\ UNCHANGED <<prep_script, prep_raw, notPrep>>

NextPrep == CleanFeatures \/ LoadTrainingFrame

SpecPrep == InitPrep /\ [][NextPrep]_vars

----------------------------------------------------------------------------
(* The two scripts end to end: main of 01_kmeans_segmentation.py and main *)
(* of 02_churn_model.py, one invocation at a time                         *)

Tables == {"customer_segments", "segment_profile", "customer_churn_scores"}

NoTable == [exists |-> FALSE, rows |-> <<>>]

NoWrites == [t \in Tables |-> 0]

NoRun ==
    [script |-> "none", pc |-> "idle", df |-> <<>>, prof |-> <<>>, out |-> <<>>,
     writes |-> NoWrites]

NullName == "NULL"    \* a segment_name the left join found no row for

\* the Feature Store row of a customer; recency_days straddles the threshold
RfmRow(id) ==
    [customer_unique_id |-> id, recency_days |-> 178 + id, monetary |-> 10 * id,
     frequency |-> 1]

\* SELECT ... FROM analytics.customer_rfm
load_rfm == LET ids == SortedSeq(customer_rfm) IN [i \in DOMAIN ids |-> RfmRow(ids[i])]

RECURSIVE Flatten(_)
Flatten(ss) == IF ss = <<>> THEN <<>> ELSE Head(ss) \o Flatten(Tail(ss))

Matches(right, key, v) == SelectSeq(right, LAMBDA r : r[key] = v)

\* an inner join: a left row without a match is dropped
InnerJoinRows(l, matches) ==
    [i \in DOMAIN matches |-> [left |-> l, right |-> matches[i], matched |-> TRUE]]

\* how="left" / LEFT JOIN: one output row per matching right row, and one
\* row with the right side missing when nothing matches
LeftJoinRows(l, matches) ==
    IF matches = <<>> THEN <<[left |-> l, right |-> <<>>, matched |-> FALSE]>>
    ELSE [i \in DOMAIN matches |-> [left |-> l, right |-> matches[i], matched |-> TRUE]]

LeftJoin(left, right, key) ==
    Flatten([i \in DOMAIN left |-> LeftJoinRows(left[i], Matches(right, key, left[i][key]))])

\* df_out = df.merge(seg_map, on="segment", how="left")[[...]]
merge_segment_names(df, prof) ==
    LET j == LeftJoin(df, prof, "segment")
    IN  [i \in DOMAIN j |->
            [customer_unique_id |-> j[i].left.customer_unique_id,
             segment      |-> j[i].left.segment,
             segment_name |-> IF j[i].matched THEN j[i].right.segment_name ELSE NullName]]

TimeRows ==
    LET ids == SortedSeq(customer_time_features)
    IN  [i \in DOMAIN ids |-> [customer_unique_id |-> ids[i], spend_30d |-> 2]]

\* the query of load_training_frame: customer_rfm LEFT JOIN customer_segments
\* LEFT JOIN customer_time_features, then the fills and the label
training_frame(segments) ==
    LET j1 == LeftJoin(load_rfm, segments, "customer_unique_id")
        r1 == [i \in DOMAIN j1 |->
                 [customer_unique_id |-> j1[i].left.customer_unique_id,
                  recency_days |-> j1[i].left.recency_days,
                  monetary     |-> j1[i].left.monetary,
                  segment_name |-> IF j1[i].matched THEN j1[i].right.segment_name
                                   ELSE NullName]]
        j2 == LeftJoin(r1, TimeRows, "customer_unique_id")
    IN  [i \in DOMAIN j2 |->
            [customer_unique_id |-> j2[i].left.customer_unique_id,
             recency_days |-> j2[i].left.recency_days,
             monetary     |-> j2[i].left.monetary,
             \* time-windowed -> zero
             spend_30d    |-> IF j2[i].matched THEN j2[i].right.spend_30d ELSE 0,
             churned      |-> IF j2[i].left.recency_days >= CHURN_THRESHOLD_DAYS
                              THEN 1 ELSE 0,
             \* df["segment_name"].fillna("Unknown")
             segment_name |-> IF j2[i].left.segment_name = NullName THEN "Unknown"
                              ELSE j2[i].left.segment_name]]

\* write_back: scored[out_cols]
out_columns(scoredRows) ==
    [i \in DOMAIN scoredRows |->
        [customer_unique_id |-> scoredRows[i].customer_unique_id,
         segment_name  |-> scoredRows[i].segment_name,
         churned       |-> scoredRows[i].churned,
         churn_risk    |-> scoredRows[i].churn_risk,
         value_at_risk |-> scoredRows[i].monetary * scoredRows[i].churn_risk,
         spend_30d     |-> scoredRows[i].spend_30d,
         priority_band |-> scoredRows[i].priority_band]]

\* the position of main at which a table is written
SegmentsWriteReadyEarly(r) == r.pc \in {"loaded", "merged"}

SegmentsWriteReady(r) == r.pc = "merged"

ProperPrefixes(rows) == {SubSeq(rows, 1, k) : k \in 0..(Len(rows) - 1)}

Scripts == {"segmentation", "churn"}

InitRun ==
    /\ SegIdle /\ BandIdle /\ PrepIdle
    /\ customer_rfm \in SUBSET (1..MaxCustomers)
    /\ customer_time_features \in SUBSET (1..MaxCustomers)
    /\ db = [t \in Tables |-> NoTable]
    /\ run = NoRun
    /\ started = {}

\* the Feature Store is rebuilt between the two invocations
RefreshFeatureStore ==
    /\ run.pc = "idle"
    /\ started # {} /\ started # Scripts
    /\ customer_rfm' \in SUBSET (1..MaxCustomers)
    /\ customer_rfm' # customer_rfm
    /\ UNCHANGED <<customer_time_features, db, run, started, notRun>>

\* each script is invoked once, in either order
StartScript ==
    /\ run.pc = "idle"
    /\ \E script \in Scripts \ started :
         /\ run' = [NoRun EXCEPT !.script = script, !.pc = "start"]
         /\ started' = started \cup {script}
    /\ UNCHANGED <<customer_rfm, customer_time_features, db, notRun>>

\* the process ends, normally or with the uncaught exception
ExitScript ==
    /\ run.pc \in {"done", "failed"}
    /\ run' = NoRun
    /\ UNCHANGED <<customer_rfm, customer_time_features, db, started, notRun>>

\* any step may raise (connectivity, data, configuration): the run aborts
StepRaises ==
    /\ run.pc \notin {"idle", "done", "failed"}
    /\ run' = [run EXCEPT !.pc = "failed"]
    /\ UNCHANGED <<customer_rfm, customer_time_features, db, started, notRun>>

\* 1) df = load_rfm(engine)
SegLoad ==
    /\ run.script = "segmentation" /\ run.pc = "start"
    /\ run' = [run EXCEPT !.pc = "loaded", !.df = load_rfm]
    /\ UNCHANGED <<customer_rfm, customer_time_features, db, started, notRun>>

\* 2) clean_features: the Feature Store rows of the run model are numeric
\* and complete, the cleaning leaves them as they are
SegClean ==
    /\ run.script = "segmentation" /\ run.pc = "loaded"
    /\ run' = [run EXCEPT !.pc = "cleaned"]
    /\ UNCHANGED <<customer_rfm, customer_time_features, db, started, notRun>>

\* 3)-5) scale, choose_k, fit_kmeans: df["segment"] = labels; KMeans needs
\* at least as many samples as clusters
SegFit ==
    /\ run.script = "segmentation" /\ run.pc = "cleaned"
    /\ Len(run.df) >= RunClusters
    /\ \E labels \in [DOMAIN run.df -> 0..(RunClusters - 1)] :
         run' = [run EXCEPT
                    !.pc = "fitted",
                    !.df = [i \in DOMAIN run.df |->
                              [customer_unique_id |-> run.df[i].customer_unique_id,
                               recency_days |-> run.df[i].recency_days,
                               monetary     |-> run.df[i].monetary,
                               frequency    |-> run.df[i].frequency,
                               segment      |-> labels[i]]]]
    /\ UNCHANGED <<customer_rfm, customer_time_features, db, started, notRun>>

\* 6) prof = name_segments(profile_segments(df, "segment"))
SegProfile ==
    /\ run.script = "segmentation" /\ run.pc = "fitted"
    /\ run' = [run EXCEPT !.pc = "profiled",
                          !.prof = name_segments(profile_segments(run.df))]
    /\ UNCHANGED <<customer_rfm, customer_time_features, db, started, notRun>>

\* 7) df_out = df.merge(seg_map, on="segment", how="left")
SegMerge ==
    /\ run.script = "segmentation" /\ run.pc = "profiled"
    /\ run' = [run EXCEPT !.pc = "merged",
                          !.out = merge_segment_names(run.df, run.prof)]
    /\ UNCHANGED <<customer_rfm, customer_time_features, db, started, notRun>>

\* 8) write_segments(engine, df_out): if_exists="replace"
SegWriteSegments ==
    /\ run.script = "segmentation" /\ SegmentsWriteReady(run)
    /\ db' = [db EXCEPT !["customer_segments"] =
                [exists |-> TRUE, rows |-> IF run.pc = "merged" THEN run.out ELSE run.df]]
    /\ run' = [run EXCEPT !.pc = IF run.pc = "merged" THEN "segments_written" ELSE @,
                          !.writes["customer_segments"] = @ + 1]
    /\ UNCHANGED <<customer_rfm, customer_time_features, started, notRun>>

\* prof.to_sql(name="segment_profile", if_exists="replace")
SegWriteProfile ==
    /\ run.script = "segmentation" /\ run.pc = "segments_written"
    /\ db' = [db EXCEPT !["segment_profile"] = [exists |-> TRUE, rows |-> run.prof]]
    /\ run' = [run EXCEPT !.pc = "done", !.writes["segment_profile"] = @ + 1]
    /\ UNCHANGED <<customer_rfm, customer_time_features, started, notRun>>

\* a to_sql call raises part-way: the table is replaced by the rows inserted
\* so far (whether the replacement is rolled back depends on the driver)
WriteRaisesPartway ==
    /\ \E t \in Tables :
         /\ \/ t = "customer_segments" /\ run.script = "segmentation" /\ run.pc = "merged"
            \/ t = "segment_profile" /\ run.script = "segmentation"
                 /\ run.pc = "segments_written"
            \/ t = "customer_churn_scores" /\ run.script = "churn" /\ run.pc = "banded"
         /\ \E part \in ProperPrefixes(IF t = "segment_profile" THEN run.prof
                                       ELSE IF t = "customer_segments" THEN run.out
                                       ELSE out_columns(run.out)) :
              db' = [db EXCEPT ![t] = [exists |-> TRUE, rows |-> part]]
         /\ run' = [run EXCEPT !.pc = "failed", !.writes[t] = @ + 1]
    /\ UNCHANGED <<customer_rfm, customer_time_features, started, notRun>>

\* df = load_training_frame(db_engine): the query fails when
\* analytics.customer_segments does not exist
ChurnLoad ==
    /\ run.script = "churn" /\ run.pc = "start"
    /\ db["customer_segments"].exists
    /\ run' = [run EXCEPT !.pc = "loaded",
                          !.df = training_frame(db["customer_segments"].rows)]
    /\ UNCHANGED <<customer_rfm, customer_time_features, db, started, notRun>>

\* scored, auc = train_and_score(df): fitting needs both classes of the label
ChurnTrainAndScore ==
    /\ run.script = "churn" /\ run.pc = "loaded"
    /\ {run.df[i].churned : i \in DOMAIN run.df} = {0, 1}
    /\ \E risk \in [DOMAIN run.df -> 0..MaxRisk] :
         run' = [run EXCEPT
                    !.pc = "scored",
                    !.df = [i \in DOMAIN run.df |->
                              [customer_unique_id |-> run.df[i].customer_unique_id,
                               recency_days |-> run.df[i].recency_days,
                               monetary     |-> run.df[i].monetary,
                               spend_30d    |-> run.df[i].spend_30d,
                               churned      |-> run.df[i].churned,
                               segment_name |-> run.df[i].segment_name,
                               churn_risk   |-> risk[i]]]]
    /\ UNCHANGED <<customer_rfm, customer_time_features, db, started, notRun>>

\* scored = assign_priority_band(scored); qcut may raise (StepRaises)
ChurnAssignPriorityBand ==
    /\ run.script = "churn" /\ run.pc = "scored"
    /\ ~QcutRaises(Column(run.df, "churn_risk"))
    /\ ~QcutRaises(Column(run.df, "monetary"))
    /\ run' = [run EXCEPT
                  !.pc = "banded",
                  !.out = LET b == assign_priority_band(run.df)
                          IN  [i \in DOMAIN run.df |->
                                 [customer_unique_id |-> run.df[i].customer_unique_id,
                                  segment_name  |-> run.df[i].segment_name,
                                  churned       |-> run.df[i].churned,
                                  monetary      |-> run.df[i].monetary,
                                  churn_risk    |-> run.df[i].churn_risk,
                                  spend_30d     |-> run.df[i].spend_30d,
                                  priority_band |-> b[i].priority_band]]]
    /\ UNCHANGED <<customer_rfm, customer_time_features, db, started, notRun>>

\* write_back(db_engine, scored): if_exists="replace"
ChurnWriteBack ==
    /\ run.script = "churn" /\ run.pc = "banded"
    /\ db' = [db EXCEPT !["customer_churn_scores"] =
                [exists |-> TRUE, rows |-> out_columns(run.out)]]
    /\ run' = [run EXCEPT !.pc = "done", !.writes["customer_churn_scores"] = @ + 1]
    /\ UNCHANGED <<customer_rfm, customer_time_features, started, notRun>>

NextRun ==
    \/ RefreshFeatureStore
    \/ StartScript
    \/ ExitScript
    \/ StepRaises
    \/ SegLoad
    \/ SegClean
    \/ SegFit
    \/ SegProfile
    \/ SegMerge
    \/ SegWriteSegments
    \/ SegWriteProfile
    \/ WriteRaisesPartway
    \/ ChurnLoad
    \/ ChurnTrainAndScore
    \/ ChurnAssignPriorityBand
    \/ ChurnWriteBack

SpecRun == InitRun /\ [][NextRun]_vars

----------------------------------------------------------------------------
(* Claims about the namer (SpecName) *)

\* the decision table of the specification, written out on the rank triple
DecisionTable(v, f, r) ==
    IF v <= 1 /\ f <= 2 /\ r <= 2 THEN "Champions"
    ELSE IF v <= 2 /\ r >= 4 THEN "At-Risk High Value"
    ELSE IF f <= 2 /\ v >= 4 THEN "Loyal Low Spend"
    ELSE IF r <= 2 /\ f >= 4 THEN "New Customers"
    ELSE "Occasional Shoppers"

\* C1: after name_segments every profile row carries the name the fixed
\* decision table (top-down, first match wins) gives its rank triple; rows
\* with the same triple carry the same name; (1,1,1) is "Champions" and
\* (value 1, freq 5, recency 5) is "At-Risk High Value".
C1_DecisionTable ==
    seg_pc = "named" =>
        /\ \A g \in DOMAIN profile :
             /\ profile[g].segment_name =
                  DecisionTable(profile[g].value_rank, profile[g].freq_rank,
                                profile[g].recency_rank)
             /\ (profile[g].value_rank = 1 /\ profile[g].freq_rank = 1
                 /\ profile[g].recency_rank = 1)
                  => profile[g].segment_name = "Champions"
             /\ (profile[g].value_rank = 1 /\ profile[g].freq_rank = 5
                 /\ profile[g].recency_rank = 5)
                  => profile[g].segment_name = "At-Risk High Value"
        /\ \A g, h \in DOMAIN profile :
             (/\ profile[g].value_rank = profile[h].value_rank
              /\ profile[g].freq_rank = profile[h].freq_rank
              /\ profile[g].recency_rank = profile[h].recency_rank)
               => profile[g].segment_name = profile[h].segment_name

C1_Witness ==
    /\ seg_pc = "named"
    /\ \E g, h \in DOMAIN profile :
         /\ profile[g].value_rank = 1 /\ profile[g].freq_rank = 5
         /\ profile[g].recency_rank = 5
         /\ profile[g].segment_name = "At-Risk High Value"
         /\ profile[h].value_rank = 1 /\ profile[h].freq_rank = 1
         /\ profile[h].recency_rank = 1
         /\ profile[h].segment_name = "Champions"

RuleOrders ==
    {o \in [1..4 -> 1..4] : \A i, j \in 1..4 : i # j => o[i] # o[j]}

\* C10: no rank triple satisfies two of the four rule conditions, so the
\* name does not depend on the order the rules are evaluated in, and
\* "Occasional Shoppers" is given exactly to the triples satisfying none.
C10_RulesExclusive ==
    \A g \in DOMAIN profile :
        /\ Cardinality({r \in 1..4 : RuleHolds(r, profile[g])}) <= 1
        /\ seg_pc = "named" =>
             /\ \A o \in RuleOrders : EvalRules(o, profile[g]) = profile[g].segment_name
             /\ (profile[g].segment_name = "Occasional Shoppers")
                  <=> (\A r \in 1..4 : ~RuleHolds(r, profile[g]))

C10_Witness ==
    /\ seg_pc = "named"
    /\ \E g, h \in DOMAIN profile :
         /\ IsNewCustomers(profile[g])
         /\ profile[g].segment_name = "New Customers"
         /\ \A r \in 1..4 : ~RuleHolds(r, profile[h])
         /\ profile[h].segment_name = "Occasional Shoppers"

----------------------------------------------------------------------------
(* Claims about the profiler (SpecProfile) *)

RankSet(col) == {profile[g][col] : g \in DOMAIN profile}

\* a rank column is dense over the profile: it takes exactly the values
\* 1..m, equal ranks mean equal means, a better mean has a smaller rank
DenseOver(rankcol, meancol, ascending) ==
    LET better(a, b) == IF ascending THEN MeanLess(a, b) ELSE MeanLess(b, a)
    IN  /\ RankSet(rankcol) = 1..Cardinality(RankSet(rankcol))
        /\ Cardinality(RankSet(rankcol)) <= Len(profile)
        /\ \A g, h \in DOMAIN profile :
             /\ (profile[g][rankcol] = profile[h][rankcol])
                  <=> MeanEq(profile[g][meancol], profile[h][meancol])
             /\ better(profile[g][meancol], profile[h][meancol])
                  => profile[g][rankcol] < profile[h][rankcol]
        /\ \A g \in DOMAIN profile :
             profile[g][rankcol] = 1
               <=> (\A h \in DOMAIN profile :
                      ~better(profile[h][meancol], profile[g][meancol]))

\* C7: in the profile each rank column takes exactly the values 1..m
\* (m <= k, no gap); equal ranks exactly for equal means; a better mean has
\* a strictly smaller rank; rank 1 is the best cluster on the axis
\* (lowest mean recency_days, highest mean monetary, highest mean frequency).
C7_DenseRanks ==
    seg_pc \in {"profiled", "named"} =>
        /\ DenseOver("recency_rank", "recency_days", TRUE)
        /\ DenseOver("value_rank", "monetary", FALSE)
        /\ DenseOver("freq_rank", "frequency", FALSE)

\* three clusters, two of them tied on mean monetary, the third worse
C7_Witness ==
    /\ seg_pc = "profiled"
    /\ Len(profile) = 3
    /\ \E g, h, k \in DOMAIN profile :
         /\ g # h
         /\ profile[g].value_rank = 1 /\ profile[h].value_rank = 1
         /\ profile[k].value_rank = 2
    /\ \E g, h \in DOMAIN profile :
         profile[g].recency_rank = 1 /\ profile[h].recency_rank = 1 /\ g # h

----------------------------------------------------------------------------
(* Claims about the priority ranker (SpecBand) *)

BandSize(bandcol, b) == Cardinality({i \in DOMAIN banded : banded[i][bandcol] = b})

\* the three group sizes differ pairwise by at most N mod 3
SizesWithinRemainder(bandcol) ==
    \A a, b \in 1..3 :
        BandSize(bandcol, a) - BandSize(bandcol, b) <= Len(banded) % 3

PairwiseDistinct(col) ==
    \A i, j \in DOMAIN banded : i # j => banded[i][col] # banded[j][col]

\* a lower band number holds strictly higher values; the maximum is in band 1
HighestFirst(bandcol, col) ==
    /\ \A i, j \in DOMAIN banded :
         banded[i][bandcol] < banded[j][bandcol] => banded[i][col] > banded[j][col]
    /\ \A i \in DOMAIN banded :
         (\A j \in DOMAIN banded : banded[j][col] <= banded[i][col])
           => banded[i][bandcol] = 1

\* C5 as stated: for every population, tied values included, the sizes of
\* the three risk_band groups differ by at most N mod 3, and likewise the
\* three value_band groups.
C5_Original_EqualCountAlways ==
    band_pc = "banded" =>
        /\ SizesWithinRemainder("risk_band")
        /\ SizesWithinRemainder("value_band")

\* C5 amended: when assign_priority_band returns, band 1 holds the highest
\* values on each axis, and on an axis whose values are pairwise distinct
\* the three group sizes differ by at most N mod 3.
C5_TertilesWhenDistinct ==
    band_pc = "banded" =>
        /\ HighestFirst("risk_band", "churn_risk")
        /\ HighestFirst("value_band", "monetary")
        /\ PairwiseDistinct("churn_risk") => SizesWithinRemainder("risk_band")
        /\ PairwiseDistinct("monetary") => SizesWithinRemainder("value_band")

\* five customers with pairwise distinct churn_risk: groups of 2, 1 and 2
C5_Witness ==
    /\ band_pc = "banded"
    /\ Len(banded) = 5
    /\ PairwiseDistinct("churn_risk")
    /\ BandSize("risk_band", 1) = 2
    /\ BandSize("risk_band", 2) = 1
    /\ BandSize("risk_band", 3) = 2

\* C6: every banded customer has exactly one priority_band of HIGH, MEDIUM,
\* LOW, a function of (risk_band, value_band): (1,1) is HIGH, (1,2) and
\* (2,1) are MEDIUM, the six other pairs are LOW.
C6_PriorityTable ==
    band_pc = "banded" =>
        \A i \in DOMAIN banded :
            LET r == banded[i].risk_band
                v == banded[i].value_band
                p == banded[i].priority_band
            IN  /\ r \in 1..3 /\ v \in 1..3
                /\ p \in PriorityBands
                /\ (p = "HIGH") <=> (r = 1 /\ v = 1)
                /\ (p = "MEDIUM") <=> ((r = 1 /\ v = 2) \/ (r = 2 /\ v = 1))
                /\ (p = "LOW") <=> (<<r, v>> \in
                        {<<1, 3>>, <<2, 2>>, <<2, 3>>, <<3, 1>>, <<3, 2>>, <<3, 3>>})

C6_Witness ==
    /\ band_pc = "banded"
    /\ \E i, j, k \in DOMAIN banded :
         /\ banded[i].risk_band = 1 /\ banded[i].value_band = 1
         /\ banded[i].priority_band = "HIGH"
         /\ banded[j].risk_band = 2 /\ banded[j].value_band = 1
         /\ banded[j].priority_band = "MEDIUM"
         /\ banded[k].risk_band = 2 /\ banded[k].value_band = 2
         /\ banded[k].priority_band = "LOW"

----------------------------------------------------------------------------
(* Claims about the feature preparation (SpecPrep) *)

RequiredColumns ==
    IF prep_script = "segmentation" THEN Range(FEATURES)
    ELSE Range(lifetime_cols) \cup Range(time_cols)

\* C2: a customer whose avg_days_between_orders is absent in the raw input
\* has the sentinel 9999 after preparation, never the column median, in
\* clean_features and in load_training_frame alike.
C2_SentinelForNoRepeat ==
    prep_result = "returned" =>
        \A i \in DOMAIN prep_raw["avg_days_between_orders"] :
            prep_raw["avg_days_between_orders"][i] = NaN
              => prep_df["avg_days_between_orders"][i] = SENTINEL

HasData(col) == \E i \in DOMAIN prep_raw[col] : to_numeric(prep_raw[col][i]) # NaN

\* the columns imputed with their median: all but the sentinel column and
\* the zero-filled time-windowed columns
MedianImputed(col) ==
    /\ col # "avg_days_between_orders"
    /\ prep_script = "churn" => col \notin Range(time_cols)

\* C8 as stated: a returned table never contains a missing value in a
\* required numeric column (the preparation fails instead when a column
\* holds no value at all).
C8_Original_NeverMissing ==
    prep_result = "returned" =>
        \A col \in RequiredColumns : isna(prep_df[col]) = {}

\* C8 amended: the preparation raises when a required column is missing
\* from the input; a returned table has no missing value in a required
\* column that held at least one numeric value, nor in the sentinel column
\* or a zero-filled column; a median-imputed column that held no numeric
\* value at all is returned still entirely missing.
C8_MissingOnlyWhenNoData ==
    /\ (prep_calls >= 1 /\ ~(RequiredColumns \subseteq DOMAIN prep_raw))
         => prep_result = "raised"
    /\ prep_result = "returned" =>
         \A col \in RequiredColumns :
            /\ (HasData(col) \/ ~MedianImputed(col)) => isna(prep_df[col]) = {}
            /\ (~HasData(col) /\ MedianImputed(col))
                 => isna(prep_df[col]) = DOMAIN prep_df[col]

\* a returned table of two or more rows with one required column entirely
\* missing
C8_Witness ==
    /\ prep_result = "returned"
    /\ \E col \in RequiredColumns :
         /\ Len(prep_df[col]) >= 2
         /\ isna(prep_df[col]) = DOMAIN prep_df[col]

\* monetary and avg_order_value keep their (coerced, imputed) values and the
\* log columns hold log1p of them
OriginalsRetained ==
    \A col \in {"monetary", "avg_order_value"} :
        \A i \in DOMAIN prep_raw[col] :
            /\ to_numeric(prep_raw[col][i]) # NaN
                 => prep_df[col][i] = to_numeric(prep_raw[col][i])
            /\ prep_df[IF col = "monetary" THEN "monetary_log"
                       ELSE "avg_order_value_log"][i] = log1p(prep_df[col][i])

\* C9: a second application of clean_features to the table the first one
\* modified in place changes no value (required columns and the two log
\* columns alike), and monetary and avg_order_value are left untransformed
\* by every application.
C9_Idempotent ==
    [][/\ (prep_script = "segmentation" /\ prep_calls >= 1
           /\ prep_calls' = prep_calls + 1)
            => (prep_df' = prep_df /\ prep_result' = prep_result)
       /\ (prep_script = "segmentation" /\ prep_result' = "returned")
            => OriginalsRetained']_vars

\* the second application has returned on a table whose monetary column
\* had a missing cell imputed and whose avg_days column got the sentinel
C9_Witness ==
    /\ prep_script = "segmentation"
    /\ prep_calls = 2
    /\ prep_result = "returned"
    /\ \E i, j \in DOMAIN prep_raw["monetary"] :
         /\ prep_raw["monetary"][i] = NaN
         /\ prep_raw["monetary"][j] = 4
         /\ prep_df["monetary"][i] = 4
         /\ prep_df["monetary_log"][i] = 161

----------------------------------------------------------------------------
(* Claims about the script runs (SpecRun) *)

RowCount(rows, id) ==
    Cardinality({i \in DOMAIN rows : rows[i].customer_unique_id = id})

\* every customer of the Feature Store exactly once, and nobody else
ExactlyOnce(rows) ==
    /\ \A id \in customer_rfm : RowCount(rows, id) = 1
    /\ \A i \in DOMAIN rows : rows[i].customer_unique_id \in customer_rfm

\* C4: every customer of analytics.customer_rfm appears exactly once in
\* customer_segments (after the segment names are merged back) and exactly
\* once in customer_churn_scores (after the two left joins), also a customer
\* with no segment row or no time-feature row.
C4_EveryCustomerOnce ==
    /\ (run.script = "segmentation" /\ run.pc = "merged") => ExactlyOnce(run.out)
    /\ (run.script = "segmentation" /\ run.pc \in {"segments_written", "done"})
         => ExactlyOnce(db["customer_segments"].rows)
    /\ (run.script = "churn" /\ run.pc \in {"loaded", "scored"}) => ExactlyOnce(run.df)
    /\ (run.script = "churn" /\ run.pc = "done")
         => ExactlyOnce(db["customer_churn_scores"].rows)

\* the churn scores are written for two or more customers, one of them
\* without a segment row and one without a time-feature row
C4_Witness ==
    /\ run.script = "churn" /\ run.pc = "done"
    /\ Len(db["customer_churn_scores"].rows) >= 2
    /\ \E i \in DOMAIN db["customer_churn_scores"].rows :
         db["customer_churn_scores"].rows[i].segment_name = "Unknown"
    /\ \E i \in DOMAIN db["customer_churn_scores"].rows :
         db["customer_churn_scores"].rows[i].customer_unique_id
            \notin customer_time_features

\* C3 as stated, on the segmentation run: a run either completes or fails
\* before its first write, so no failed run has replaced customer_segments
\* with its output while segment_profile is not written.
C3_Original_NoHalfWrittenRun ==
    ~(/\ run.script = "segmentation"
      /\ run.pc = "failed"
      /\ run.writes["customer_segments"] = 1
      /\ db["customer_segments"] = [exists |-> TRUE, rows |-> run.out]
      /\ run.writes["segment_profile"] = 0)

ComputeSteps == {"start", "loaded", "cleaned", "fitted", "profiled", "scored"}

\* C3 amended: the destination tables change only by a to_sql call of the
\* running script; each table is written at most once per run and only
\* after fitting, profiling or scoring and banding are done in memory,
\* customer_segments before segment_profile; a failure in a step before the
\* first write leaves every table untouched.
C3_WritesOnceAfterCompute ==
    [][/\ \A t \in Tables :
            /\ db'[t] # db[t] => run'.writes[t] = run.writes[t] + 1
            /\ run'.writes[t] <= 1
       /\ run'.writes["customer_segments"] >= 1
            => (run'.script = "segmentation" /\ run'.prof # <<>> /\ run'.out # <<>>)
       /\ run'.writes["segment_profile"] >= 1
            => (run'.script = "segmentation" /\ run'.writes["customer_segments"] = 1)
       /\ run'.writes["customer_churn_scores"] >= 1
            => (run'.script = "churn" /\ run'.out # <<>>)
       /\ (run'.pc = "failed" /\ run.pc \in ComputeSteps)
            => (db' = db /\ run'.writes = NoWrites)]_vars

\* a segmentation run has completed: both tables written once, in order,
\* from the frames computed in memory
C3_Witness ==
    /\ run.script = "segmentation"
    /\ run.pc = "done"
    /\ run.writes = [NoWrites EXCEPT !["customer_segments"] = 1, !["segment_profile"] = 1]
    /\ Len(run.out) >= 2
    /\ db["customer_segments"] = [exists |-> TRUE, rows |-> run.out]
    /\ db["segment_profile"] = [exists |-> TRUE, rows |-> run.prof]

====
